---- MODULE Spec2Model ----
(***************************************************************************)
(* Response cache of the climate-risk-tool API: the InMemoryCache class of *)
(* src/middleware/cache.js in its two variants (tiered TTL with ETags, and *)
(* the simple one), its Express middleware, and the clock it reads.        *)
(*                                                                         *)
(* Time is counted in units of 100 ms so that the 30-day TTL and the sums  *)
(* now + ttl stay inside TLC's 32-bit integers: a duration of n ms is      *)
(* n / 100 units, and the source's 1000 (ms per second) is Second = 10.    *)
(*                                                                         *)
(* URLs are sequences of tokens ("/api", "/indices", "/", "stats", ...);   *)
(* String.prototype.includes is the contiguous-subsequence test on them.   *)
(* A cache key `${method}:${originalUrl}` is <<method, ":">> \o url.       *)
(***************************************************************************)
EXTENDS Integers, Sequences, FiniteSets, TLC

VARIABLES
    variant,    \* which InMemoryCache class was constructed: "tiered" | "simple"
    maxSize,    \* this.maxSize
    ttl,        \* this.ttl, the default TTL
    cache,      \* this.cache: a JS Map, kept as the sequence of its entries in Map order
    hits,       \* this.hits
    misses,     \* this.misses
    now,        \* the value Date.now() returns
    ticks,      \* how many times the clock has advanced
    lookups,    \* how many get calls and requests there have been
    pending,    \* requests whose handler was invoked and has not responded yet
    warmer,     \* the CacheWarmingService: its counters and how far warmCache has got
    server,     \* how far startServer of the main server has got
    last        \* the operation just performed and what it returned

vars == <<variant, maxSize, ttl, cache, hits, misses, now, ticks, lookups, pending,
          warmer, server, last>>


----------------------------------------------------------------------------
(* Bounds of the model *)

MaxCapacity == 2      \* largest options.maxSize tried
MaxTicks    == 1      \* clock advances in one behaviour
MaxLookups  == 2      \* get calls and requests in one behaviour
MaxPending  == 1      \* handlers in flight at the same time

----------------------------------------------------------------------------
(* Durations *)

Second == 10
Hour   == 60 * 60 * Second


(* The tiers of this.ttlSettings *)
ttlSettings ==
    [ metadata       |-> 7 * 24 * 60 * 60 * Second,
      geojson        |-> 30 * 24 * 60 * 60 * Second,
      municipalities |-> 7 * 24 * 60 * 60 * Second,
      health         |-> 60 * 60 * Second,
      default        |-> 3600 * Second ]

\* the literal 3600000 of `options.ttl || 3600000`, and the 100 of `options.maxSize || 100`
DefaultTtl     == 3600 * Second
DefaultMaxSize == 100

----------------------------------------------------------------------------
(* JavaScript values *)

\* A JSON payload is a record holding the source text of the value.
null      == [js |-> "null"]
undefined == "undefined"           \* of a header that was not sent

PObjA  == [js |-> "{a:1}"]
PObjA2 == [js |-> "{a:1,b:undefined}"]   \* a different object that serialises like PObjA
PZero  == [js |-> "0"]
PError == [js |-> "{success:false,error:'...'}"]   \* the body of an error response

Payloads == {null, PObjA}

\* !x for the values above
Falsy(x) == x \in {null, PZero, [js |-> "false"], [js |-> "''"]}

\* An optional number argument: <<>> is an argument left out (null), <<n>> is n.
None    == <<>>
Some(n) == <<n>>

\* JSON.stringify drops properties whose value is undefined
JSONstringify(data) ==
    IF data = PObjA2 THEN "{a:1}" ELSE data.js

\* crypto.createHash('md5').update(content).digest('hex'), taken to be
\* collision-free on the few contents of the model
md5hex(content) == "md5(" \o content \o ")"

----------------------------------------------------------------------------
(* URLs and String.prototype.includes *)

\* needle occurs in hay as a contiguous run
includes(hay, needle) ==
    \E i \in 0..(Len(hay) - Len(needle)) :
        \A j \in 1..Len(needle) : hay[i + j] = needle[j]

M_indices        == <<"/", "indices">>
M_geojson        == <<"/", "climate-data", "/", "geojson", "/">>
M_municipalities == <<"/", "municipalities">>
M_health         == <<"/", "health">>
M_cache          == <<"/", "cache", "/">>

U_indices == <<"/", "api", "/", "indices">>
U_geojson == <<"/", "api", "/", "climate-data", "/", "geojson", "/", "ssp245/near-term_2021-2040/cdd">>
U_other   == <<"/", "api", "/", "climate-data", "/", "scenarios">>
U_cache   == <<"/", "api", "/", "cache", "/", "stats">>

\* URLs that exercise every tier, and several markers at once
U_municipalities == <<"/", "api", "/", "municipalities">>
U_health         == <<"/", "health">>
U_healthcheck    == <<"/", "api", "/", "health", "check">>
U_geojson_root   == <<"/", "api", "/", "climate-data", "/", "geojson">>
U_geo_munic      == U_geojson \o <<"?ref=", "/", "municipalities">>
U_geo_indices    == U_geojson \o <<"?from=", "/", "indices">>
U_munic_health   == <<"/", "api", "/", "municipalities", "/", "health">>

TierUrls ==
    { U_indices, U_geojson, U_municipalities, U_health, U_other, U_healthcheck,
      U_geojson_root, U_geo_munic, U_geo_indices, U_munic_health }

----------------------------------------------------------------------------
(* The JS Map behind this.cache: a sequence of <<key, value>> in Map order *)

MapKeys(m) == {m[i][1] : i \in 1..Len(m)}

MapHas(m, k) == k \in MapKeys(m)

MapIndex(m, k) == CHOOSE i \in 1..Len(m) : m[i][1] = k

\* Map.prototype.get: the value, or undefined (which the callers only test with !item)
MapGet(m, k) == IF MapHas(m, k) THEN m[MapIndex(m, k)][2] ELSE null

\* Map.prototype.delete: a key that is not there is left alone
MapDelete(m, k) ==
    IF MapHas(m, k)
    THEN SubSeq(m, 1, MapIndex(m, k) - 1) \o SubSeq(m, MapIndex(m, k) + 1, Len(m))
    ELSE m

\* Map.prototype.set: an existing key keeps its place in the order, a new one goes last
MapSet(m, k, v) ==
    IF MapHas(m, k)
    THEN [m EXCEPT ![MapIndex(m, k)] = <<k, v>>]
    ELSE Append(m, <<k, v>>)

----------------------------------------------------------------------------
(* class InMemoryCache, tiered variant.  `this` is the record of the        *)
(* instance's fields [cache, hits, misses, ttl, maxSize].                   *)

\* x || d for an optional number: null and 0 are falsy
OrDefault(x, d) == IF x = None \/ x = Some(0) THEN d ELSE x[1]

\* constructor(options = {})
InMemoryCache(options) ==
    [ cache   |-> <<>>,
      ttl     |-> OrDefault(options.ttl, DefaultTtl),
      maxSize |-> OrDefault(options.maxSize, DefaultMaxSize),
      hits    |-> 0,
      misses  |-> 0 ]

generateKey(req) == <<req.method, ":">> \o req.originalUrl

generateETag(data) == md5hex(JSONstringify(data))

\* determineTTL with the municipalities test moved in front of the GeoJSON test
determineTTL_municipalitiesFirst(url) ==
    IF includes(url, M_indices) THEN ttlSettings.metadata
    ELSE IF includes(url, M_municipalities) THEN ttlSettings.municipalities
    ELSE IF includes(url, M_geojson) THEN ttlSettings.geojson
    ELSE IF includes(url, M_health) THEN ttlSettings.health
    ELSE ttlSettings.default

determineTTL(url) ==
    IF includes(url, M_indices) THEN ttlSettings.metadata
    ELSE IF includes(url, M_geojson) THEN ttlSettings.geojson
    ELSE IF includes(url, M_municipalities) THEN ttlSettings.municipalities
    ELSE IF includes(url, M_health) THEN ttlSettings.health
    ELSE ttlSettings.default

\* the header without the conversion to seconds
getCacheControlHeader_ms(t) == "public, max-age=" \o ToString(t)

\* `public, max-age=${maxAge}`
getCacheControlHeader(t) ==
    LET maxAge == t \div Second
    IN  "public, max-age=" \o ToString(maxAge)

\* get with the expiry test off by one: an entry is dropped at its expiresAt
get_expiresEarly(this, key, t) ==
    LET item == MapGet(this.cache, key)
    IN  IF ~MapHas(this.cache, key)
        THEN [ret |-> null, this |-> [this EXCEPT !.misses = @ + 1]]
        ELSE IF t >= item.expiresAt
        THEN [ret |-> null,
              this |-> [this EXCEPT !.cache = MapDelete(@, key), !.misses = @ + 1]]
        ELSE [ret |-> item, this |-> [this EXCEPT !.hits = @ + 1]]

\* get that refreshes the position of an entry it hits (access order): the
\* entry is deleted and inserted again, so it becomes the newest of the Map
get_touches(this, key, t) ==
    LET item == MapGet(this.cache, key)
    IN  IF ~MapHas(this.cache, key)
        THEN [ret |-> null, this |-> [this EXCEPT !.misses = @ + 1]]
        ELSE IF t > item.expiresAt
        THEN [ret |-> null,
              this |-> [this EXCEPT !.cache = MapDelete(@, key), !.misses = @ + 1]]
        ELSE [ret |-> item,
              this |-> [this EXCEPT !.cache = MapSet(MapDelete(@, key), key, item),
                                    !.hits = @ + 1]]

\* get that does not count the miss of an absent key
get_uncountedMiss(this, key, t) ==
    LET item == MapGet(this.cache, key)
    IN  IF ~MapHas(this.cache, key)
        THEN [ret |-> null, this |-> this]
        ELSE IF t > item.expiresAt
        THEN [ret |-> null,
              this |-> [this EXCEPT !.cache = MapDelete(@, key), !.misses = @ + 1]]
        ELSE [ret |-> item, this |-> [this EXCEPT !.hits = @ + 1]]

\* get that counts an expired entry as a miss but leaves it in the Map
get_keepsExpired(this, key, t) ==
    LET item == MapGet(this.cache, key)
    IN  IF ~MapHas(this.cache, key)
        THEN [ret |-> null, this |-> [this EXCEPT !.misses = @ + 1]]
        ELSE IF t > item.expiresAt
        THEN [ret |-> null, this |-> [this EXCEPT !.misses = @ + 1]]
        ELSE [ret |-> item, this |-> [this EXCEPT !.hits = @ + 1]]

\* get(key) called when Date.now() is t: the value returned and the instance afterwards
get(this, key, t) ==
    LET item == MapGet(this.cache, key)
    IN  IF ~MapHas(this.cache, key)
        THEN [ret |-> null, this |-> [this EXCEPT !.misses = @ + 1]]
        ELSE IF t > item.expiresAt
        THEN [ret |-> null,
              this |-> [this EXCEPT !.cache = MapDelete(@, key), !.misses = @ + 1]]
        ELSE [ret |-> item, this |-> [this EXCEPT !.hits = @ + 1]]

\* the eviction with > for >=: the Map may grow one past maxSize
evictIfFull_late(this) ==
    IF Len(this.cache) > this.maxSize /\ Len(this.cache) > 0
    THEN MapDelete(this.cache, this.cache[1][1])
    ELSE this.cache

\* the eviction at the head of set: keys().next().value of an empty Map is
\* undefined, and deleting it does nothing
evictIfFull(this) ==
    IF Len(this.cache) >= this.maxSize /\ Len(this.cache) > 0
    THEN MapDelete(this.cache, this.cache[1][1])
    ELSE this.cache

\* set(key, data, customTtl = null); t1 and t2 are what the two calls of
\* Date.now() return, in the order the object literal evaluates them
set(this, key, data, customTtl, t1, t2) ==
    LET t    == OrDefault(customTtl, this.ttl)
        etag == generateETag(data)
    IN  [this EXCEPT !.cache =
            MapSet(evictIfFull(this), key,
                   [data |-> data, etag |-> etag, expiresAt |-> t1 + t, createdAt |-> t2])]

\* clear without the reset of the counters
clear_keepsCounters(this) == [this EXCEPT !.cache = <<>>]

clear(this) == [this EXCEPT !.cache = <<>>, !.hits = 0, !.misses = 0]

\* Number.prototype.toFixed(2) of num / den for num >= 0, den > 0: the
\* nearest multiple of 0.01, the larger one on a tie, as decimal digits.
\* (hits / total) * 100 is a double; for the counters reached here it is
\* not within rounding error of a tie, so the exact quotient gives the same
\* digits.
toFixed2(num, den) ==
    LET n == (2 * 100 * num + den) \div (2 * den)
        f == n % 100
    IN  ToString(n \div 100) \o "." \o (IF f < 10 THEN "0" ELSE "") \o ToString(f)

\* getStats with the rate left as a fraction of 1
getStats_fraction(this) ==
    LET total == this.hits + this.misses
    IN  [ size    |-> Len(this.cache),
          maxSize |-> this.maxSize,
          hits    |-> this.hits,
          misses  |-> this.misses,
          hitRate |-> IF total > 0 THEN toFixed2(this.hits, total) \o "%" ELSE "0%",
          ttl     |-> this.ttl ]

getStats(this) ==
    LET total == this.hits + this.misses
    IN  [ size    |-> Len(this.cache),
          maxSize |-> this.maxSize,
          hits    |-> this.hits,
          misses  |-> this.misses,
          hitRate |-> IF total > 0 THEN toFixed2(this.hits * 100, total) \o "%" ELSE "0%",
          ttl     |-> this.ttl ]

----------------------------------------------------------------------------
(* class InMemoryCache, simple variant: no etag, get returns the payload *)

simple_get(this, key, t) ==
    LET item == MapGet(this.cache, key)
    IN  IF ~MapHas(this.cache, key)
        THEN [ret |-> null, this |-> [this EXCEPT !.misses = @ + 1]]
        ELSE IF t > item.expiresAt
        THEN [ret |-> null,
              this |-> [this EXCEPT !.cache = MapDelete(@, key), !.misses = @ + 1]]
        ELSE [ret |-> item.data, this |-> [this EXCEPT !.hits = @ + 1]]

simple_set(this, key, data, customTtl, t1, t2) ==
    LET t == OrDefault(customTtl, this.ttl)
    IN  [this EXCEPT !.cache =
            MapSet(evictIfFull(this), key,
                   [data |-> data, expiresAt |-> t1 + t, createdAt |-> t2])]

----------------------------------------------------------------------------
(* The Express middleware.  A response is the status, the body and the     *)
(* four headers the middleware may set; a header never set is undefined.   *)

NoBody == [js |-> "<no body>"]

NoHeaders ==
    [ xCache |-> undefined, xCacheKey |-> undefined,
      etag |-> undefined, cacheControl |-> undefined ]

\* if (cachedItem), tested on the payload instead of the item
isCached_payload(cachedItem) == cachedItem # null /\ ~Falsy(cachedItem.data)

\* if (cachedItem): get returns the item object or null
isCached(cachedItem) == cachedItem # null

\* the middleware without the test of the method
middleware_anyMethod(this, req, t) ==
    IF includes(req.originalUrl, M_cache)
    THEN [next |-> TRUE, intercepted |-> FALSE, this |-> this]
    ELSE
      LET key        == generateKey(req)
          lookup     == get(this, key, t)
          cachedItem == lookup.ret
          tier       == determineTTL(req.originalUrl)
      IN  IF isCached(cachedItem)
          THEN IF req.ifNoneMatch = cachedItem.etag
               THEN [next |-> FALSE, this |-> lookup.this,
                     res |-> [status |-> 304, body |-> NoBody,
                              headers |-> [NoHeaders EXCEPT
                                  !.xCache = "HIT-304",
                                  !.etag = cachedItem.etag,
                                  !.cacheControl = getCacheControlHeader(tier)]]]
               ELSE [next |-> FALSE, this |-> lookup.this,
                     res |-> [status |-> 200, body |-> cachedItem.data,
                              headers |-> [NoHeaders EXCEPT
                                  !.xCache = "HIT",
                                  !.xCacheKey = key,
                                  !.etag = cachedItem.etag,
                                  !.cacheControl = getCacheControlHeader(tier)]]]
          ELSE [next |-> TRUE, intercepted |-> TRUE, this |-> lookup.this,
                key |-> key, ttl |-> Some(tier)]

\* What the synchronous part of the tiered middleware does with req when
\* Date.now() is t: either a response (the handler is not called), or
\* next() with res.json intercepted or not.
middleware(this, req, t) ==
    IF req.method # "GET"
    THEN [next |-> TRUE, intercepted |-> FALSE, this |-> this]
    ELSE IF includes(req.originalUrl, M_cache)
    THEN [next |-> TRUE, intercepted |-> FALSE, this |-> this]
    ELSE
      LET key        == generateKey(req)
          lookup     == get(this, key, t)
          cachedItem == lookup.ret
          tier       == determineTTL(req.originalUrl)
      IN  IF isCached(cachedItem)
          THEN IF req.ifNoneMatch = cachedItem.etag
               THEN [next |-> FALSE, this |-> lookup.this,
                     res |-> [status |-> 304, body |-> NoBody,
                              headers |-> [NoHeaders EXCEPT
                                  !.xCache = "HIT-304",
                                  !.etag = cachedItem.etag,
                                  !.cacheControl = getCacheControlHeader(tier)]]]
               ELSE [next |-> FALSE, this |-> lookup.this,
                     res |-> [status |-> 200, body |-> cachedItem.data,
                              headers |-> [NoHeaders EXCEPT
                                  !.xCache = "HIT",
                                  !.xCacheKey = key,
                                  !.etag = cachedItem.etag,
                                  !.cacheControl = getCacheControlHeader(tier)]]]
          ELSE [next |-> TRUE, intercepted |-> TRUE, this |-> lookup.this,
                key |-> key, ttl |-> Some(tier)]

\* the override storing whatever the status code is
json_anyStatus(this, p, status, data, t1, t2) ==
    [ this |-> set(this, p.key, data, p.ttl, t1, t2),
      res  |-> [status |-> status, body |-> data,
                headers |-> [NoHeaders EXCEPT
                    !.etag = IF status = 200 THEN generateETag(data) ELSE undefined,
                    !.xCache = "MISS",
                    !.xCacheKey = p.key,
                    !.cacheControl = getCacheControlHeader(p.ttl[1])]] ]

\* the override that stores a payload only while its key is not stored: the
\* first of two responses for one key stays
json_keepsFirst(this, p, status, data, t1, t2) ==
    [ this |-> IF status = 200 /\ ~MapHas(this.cache, p.key)
               THEN set(this, p.key, data, p.ttl, t1, t2) ELSE this,
      res  |-> [status |-> status, body |-> data,
                headers |-> [NoHeaders EXCEPT
                    !.etag = IF status = 200 THEN generateETag(data) ELSE undefined,
                    !.xCache = "MISS",
                    !.xCacheKey = p.key,
                    !.cacheControl = getCacheControlHeader(p.ttl[1])]] ]

\* the override without the ETag header
json_noETag(this, p, status, data, t1, t2) ==
    [ this |-> IF status = 200 THEN set(this, p.key, data, p.ttl, t1, t2) ELSE this,
      res  |-> [status |-> status, body |-> data,
                headers |-> [NoHeaders EXCEPT
                    !.xCache = "MISS",
                    !.xCacheKey = p.key,
                    !.cacheControl = getCacheControlHeader(p.ttl[1])]] ]

\* The res.json the tiered middleware installs on a miss, called by the
\* handler with res.statusCode = status
json(this, p, status, data, t1, t2) ==
    [ this |-> IF status = 200 THEN set(this, p.key, data, p.ttl, t1, t2) ELSE this,
      res  |-> [status |-> status, body |-> data,
                headers |-> [NoHeaders EXCEPT
                    !.etag = IF status = 200 THEN generateETag(data) ELSE undefined,
                    !.xCache = "MISS",
                    !.xCacheKey = p.key,
                    !.cacheControl = getCacheControlHeader(p.ttl[1])]] ]

\* The simple variant's middleware: no excluded paths, no tiers, no ETag
simple_middleware(this, req, t) ==
    IF req.method # "GET"
    THEN [next |-> TRUE, intercepted |-> FALSE, this |-> this]
    ELSE
      LET key        == generateKey(req)
          lookup     == simple_get(this, key, t)
          cachedData == lookup.ret
      IN  IF ~Falsy(cachedData)
          THEN [next |-> FALSE, this |-> lookup.this,
                res |-> [status |-> 200, body |-> cachedData,
                         headers |-> [NoHeaders EXCEPT
                             !.xCache = "HIT", !.xCacheKey = key]]]
          ELSE [next |-> TRUE, intercepted |-> TRUE, this |-> lookup.this,
                key |-> key, ttl |-> None]

simple_json(this, p, status, data, t1, t2) ==
    [ this |-> IF status = 200 THEN simple_set(this, p.key, data, None, t1, t2) ELSE this,
      res  |-> [status |-> status, body |-> data,
                headers |-> [NoHeaders EXCEPT
                    !.xCache = "MISS", !.xCacheKey = p.key]] ]

\* res.json as Express provides it
originalJson(status, data) ==
    [status |-> status, body |-> data, headers |-> NoHeaders]

----------------------------------------------------------------------------
(* class CacheWarmingService *)

CLIMATE_INDICES ==
    << "cdd", "cwd", "prcptot", "r10mm", "r20mm", "r95p", "r99p",
       "r95ptot", "r99ptot", "rx1day", "rx5day", "sdii",
       "fd", "tn10p", "tn90p", "tnlt2", "tnn", "tnx",
       "tx10p", "tx90p", "txge30", "txgt50p", "txn", "txx",
       "csdi", "wsdi", "txd_tnd" >>

PRIORITY_INDICES ==
    << "cdd", "wsdi", "txge30", "prcptot", "rx1day", "fd", "r10mm", "csdi" >>

\* the step of the batching loops: for (let i = 0; i < length; i += 5)
BatchSize == 5

\* Array.prototype.includes
Includes(list, x) == \E i \in 1..Len(list) : list[i] = x

\* Array.prototype.slice(from, to), zero-based and clipped at the length
slice(list, from, to) ==
    SubSeq(list, from + 1, IF to < Len(list) THEN to ELSE Len(list))

\* the loop that cuts a list into batches, taking ten at a time
batchesOf_ten(list) ==
    [b \in 1..((Len(list) + 10 - 1) \div 10) |->
        slice(list, (b - 1) * 10, (b - 1) * 10 + 10)]

\* the loop that cuts a list into batches
batchesOf(list) ==
    [b \in 1..((Len(list) + BatchSize - 1) \div BatchSize) |->
        slice(list, (b - 1) * BatchSize, (b - 1) * BatchSize + BatchSize)]

\* the remaining indices without the filter
remainingIndices_all == CLIMATE_INDICES

remainingIndices ==
    SelectSeq(CLIMATE_INDICES, LAMBDA idx : ~Includes(PRIORITY_INDICES, idx))

\* the batches of warmTier1 with the remaining indices first
tier1Batches_remainingFirst == batchesOf(remainingIndices) \o batchesOf(PRIORITY_INDICES)

\* the batches of warmTier1 in the order its two loops run them
tier1Batches == batchesOf(PRIORITY_INDICES) \o batchesOf(remainingIndices)

\* what the database answers: rows, no rows, or an error
QueryResults == {"rows", "empty", "error"}

\* the indices whose query may also answer with no rows or an error: one of
\* the priority subset and one of the rest
FlakyIndices == {"cdd", "sdii"}

GeoResults(index) == IF index \in FlakyIndices THEN QueryResults ELSE {"rows"}

geojson(index) == [js |-> "{type:'FeatureCollection',index_code:'" \o index \o "'}"]

\* buildGeoJSON: result.rows[0]?.geojson || null
buildGeoJSON(index, result) == IF result = "rows" THEN geojson(index) ELSE null

\* `GET:/api/climate-data/geojson/${scenario}/${period}/${index}` with the
\* scenario and period of warmTier1
geoKey(index) ==
    <<"GET", ":", "/", "api", "/", "climate-data", "/", "geojson", "/",
      "ssp245/near-term_2021-2040/" \o index>>

\* { success: true, data }
wrapped(data) == [js |-> "{success:true,data:" \o data.js \o "}"]

\* { success: true, count: rows.length, data: rows }
listing(result) ==
    [js |-> "{success:true,count:" \o (IF result = "rows" THEN "n" ELSE "0") \o ",data:rows}"]

GeoTtl  == 30 * 24 * 60 * 60 * Second
MetaTtl == 7 * 24 * 60 * 60 * Second

KeyIndices        == <<"GET", ":", "/", "api", "/", "indices">>
KeyMunicipalities == <<"GET", ":", "/", "api", "/", "municipalities">>

\* constructor(), with the position of warmCache: pc, the number of batches
\* started, the queries in flight, and what has been started and has failed
CacheWarmingService ==
    [ warmedCount |-> 0, failedCount |-> 0,
      pc |-> "idle", batch |-> 0, order |-> "none", inflight |-> <<>>,
      started |-> <<>>, bad |-> {}, metaResults |-> <<>>, afterMeta |-> 0 ]

\* warmEntry without the count of an empty result
warmEntry_ignoresEmpty(this, w, index, result, t) ==
    IF result = "error"
    THEN [this |-> this, w |-> [w EXCEPT !.failedCount = @ + 1]]
    ELSE LET data == buildGeoJSON(index, result)
         IN  IF data # null
             THEN [this |-> set(this, geoKey(index), wrapped(data), Some(GeoTtl), t, t),
                   w    |-> [w EXCEPT !.warmedCount = @ + 1]]
             ELSE [this |-> this, w |-> w]

\* warmEntry from the moment its query has answered with result, at time t
warmEntry(this, w, index, result, t) ==
    IF result = "error"
    THEN [this |-> this, w |-> [w EXCEPT !.failedCount = @ + 1]]
    ELSE LET data == buildGeoJSON(index, result)
         IN  IF data # null
             THEN [this |-> set(this, geoKey(index), wrapped(data), Some(GeoTtl), t, t),
                   w    |-> [w EXCEPT !.warmedCount = @ + 1]]
             ELSE [this |-> this, w |-> [w EXCEPT !.failedCount = @ + 1]]

\* warmMetadata whose catch counts one failed target instead of two
warmMetadata_countsOne(this, w, q, result, t) ==
    IF result = "error"
    THEN [this |-> this, w |-> [w EXCEPT !.failedCount = @ + 1, !.inflight = <<>>]]
    ELSE IF q = "climate_indices"
    THEN [this |-> set(this, KeyIndices, listing(result), Some(MetaTtl), t, t),
          w    |-> [w EXCEPT !.inflight = <<"municipalities">>]]
    ELSE [this |-> set(this, KeyMunicipalities, listing(result), Some(MetaTtl), t, t),
          w    |-> [w EXCEPT !.warmedCount = @ + 2, !.inflight = <<>>]]

\* warmMetadata from the moment the query named q has answered with result
warmMetadata(this, w, q, result, t) ==
    IF result = "error"
    THEN [this |-> this, w |-> [w EXCEPT !.failedCount = @ + 2, !.inflight = <<>>]]
    ELSE IF q = "climate_indices"
    THEN [this |-> set(this, KeyIndices, listing(result), Some(MetaTtl), t, t),
          w    |-> [w EXCEPT !.inflight = <<"municipalities">>]]
    ELSE [this |-> set(this, KeyMunicipalities, listing(result), Some(MetaTtl), t, t),
          w    |-> [w EXCEPT !.warmedCount = @ + 2, !.inflight = <<>>]]

----------------------------------------------------------------------------
(* The route handlers the warmer stands in for *)

\* the path of the GeoJSON route for the warmer's scenario and period
geoUrl(index) ==
    <<"/", "api", "/", "climate-data", "/", "geojson", "/",
      "ssp245/near-term_2021-2040/" \o index>>

\* the FeatureCollection the route's query builds: its feature properties
\* carry id and district_code, which the warmer's query leaves out
routeGeojson(index) ==
    [js |-> "{type:'FeatureCollection',properties:{id,district_code},index_code:'"
            \o index \o "'}"]

\* router.get('/geojson/:scenario/:period/:index') for a valid index
geojsonRoute(index, result) ==
    IF result = "rows"
    THEN [status |-> 200, body |-> routeGeojson(index)]
    ELSE [status |-> 404, body |-> PError]

\* router.get('/') of the indices and of the municipalities routes
listRoute(result) == [status |-> 200, body |-> listing(result)]

----------------------------------------------------------------------------
(* State *)

This == [cache |-> cache, hits |-> hits, misses |-> misses, ttl |-> ttl, maxSize |-> maxSize]

\* write an instance record back to the variables
Becomes(this) ==
    /\ cache' = this.cache
    /\ hits' = this.hits
    /\ misses' = this.misses
    /\ ttl' = this.ttl
    /\ maxSize' = this.maxSize

\* the options the instance is constructed with
OptionsSet ==
    [ ttl : {None}, maxSize : {Some(n) : n \in 1..MaxCapacity} ]

GET(url) == [method |-> "GET", originalUrl |-> url]

\* the keys direct callers use
Keys == {generateKey(GET(u)) : u \in {U_indices, U_other}}

\* the TTL arguments direct callers pass: 0, and one that differs from the default
TtlArgs == {Some(0), Some(Hour + 1)}

\* how far the clock moves between two observations
ClockSteps == {Hour, Hour + 1}

\* the values a second Date.now() may return when the first returned `now`
LaterReads == {now} \cup {t \in {now + 1} : ticks < MaxTicks}

InitWith(options) ==
    /\ LET this == InMemoryCache(options)
       IN  /\ cache = this.cache
           /\ hits = this.hits
           /\ misses = this.misses
           /\ ttl = this.ttl
           /\ maxSize = this.maxSize
    /\ now = 0
    /\ ticks = 0
    /\ lookups = 0
    /\ pending = <<>>
    /\ warmer = CacheWarmingService
    /\ server = [pc |-> "starting"]
    /\ last = [op |-> "new"]

\* either class may be the one constructed
Init ==
    /\ variant \in {"tiered", "simple"}
    /\ \E options \in OptionsSet : InitWith(options)

\* the tiered class behind the middleware; with two cacheable routes a
\* capacity above 2 behaves like 2
InitTiered ==
    /\ variant = "tiered"
    /\ \E options \in [ttl : {None}, maxSize : {Some(1), Some(2)}] : InitWith(options)

\* time passes
Tick ==
    /\ ticks < MaxTicks
    /\ \E d \in ClockSteps : now' = now + d
    /\ ticks' = ticks + 1
    /\ last' = [op |-> "tick"]
    /\ UNCHANGED <<variant, server, warmer, maxSize, ttl, cache, hits, misses, lookups,
                   pending>>

\* a direct call of cache.get(key)
GetUpTo(keys, limit) ==
    /\ lookups < limit
    /\ lookups' = lookups + 1
    /\ \E key \in keys :
          LET r == IF variant = "tiered" THEN get(This, key, now)
                   ELSE simple_get(This, key, now)
          IN  /\ Becomes(r.this)
              /\ last' = [op |-> "get", key |-> key, ret |-> r.ret]
    /\ UNCHANGED <<variant, server, warmer, now, ticks, pending>>

GetOp(keys) == GetUpTo(keys, MaxLookups)

Get == GetOp(Keys)

\* a direct call of cache.set(key, data, customTtl); the clock may move on
\* between the two Date.now() calls of the object literal
SetOp(keys, payloads, ttls) ==
    /\ \E key \in keys, data \in payloads, customTtl \in ttls, t2 \in LaterReads :
          /\ Becomes(IF variant = "tiered"
                     THEN set(This, key, data, customTtl, now, t2)
                     ELSE simple_set(This, key, data, customTtl, now, t2))
          /\ now' = t2
          /\ ticks' = ticks + (t2 - now)
          /\ last' = [op |-> "set", key |-> key, data |-> data, customTtl |-> customTtl]
    /\ UNCHANGED <<variant, server, warmer, lookups, pending>>

Set == SetOp(Keys, Payloads, TtlArgs)

\* a direct call of cache.clear()
Clear ==
    /\ Becomes(clear(This))
    /\ last' = [op |-> "clear"]
    /\ UNCHANGED <<variant, server, warmer, now, ticks, lookups, pending>>

\* the validators a client sends: none, or the ETag of a payload it holds
Validators == {undefined, generateETag(PObjA)}

\* the requests that arrive: GETs of the cacheable routes with and without a
\* validator, a GET of a cache-management path, and a request of another method
Requests ==
    [ method : {"GET"}, originalUrl : {U_indices, U_other}, ifNoneMatch : Validators ]
    \cup [ method : {"GET"}, originalUrl : {U_cache}, ifNoneMatch : {undefined} ]
    \cup [ method : {"POST"}, originalUrl : {U_other}, ifNoneMatch : {undefined} ]

\* what a handler answers: status 200 with a payload, or 404 with an error body
Answers == {<<200, data>> : data \in Payloads} \cup {<<404, PError>>}

NoResponse == [status |-> 0, body |-> NoBody, headers |-> NoHeaders]

\* a request reaches the middleware: it is answered from the cache, or the
\* handler is invoked and the request waits for it
RequestUpTo(reqs, waiting) ==
    /\ lookups < MaxLookups
    /\ lookups' = lookups + 1
    /\ \E req \in reqs :
          LET m == IF variant = "tiered" THEN middleware(This, req, now)
                   ELSE simple_middleware(This, req, now)
          IN  /\ m.next => Len(pending) < waiting
              /\ Becomes(m.this)
              /\ pending' = IF ~m.next THEN pending
                            ELSE Append(pending,
                                   [req |-> req,
                                    key |-> generateKey(req),
                                    intercepted |-> m.intercepted,
                                    ttl |-> IF m.intercepted THEN m.ttl ELSE None])
              /\ last' = [op |-> "request", req |-> req, next |-> m.next,
                          removed |-> MapKeys(cache) \ MapKeys(m.this.cache),
                          ttl |-> IF m.next /\ m.intercepted THEN m.ttl ELSE None,
                          res |-> IF m.next THEN NoResponse ELSE m.res]
    /\ UNCHANGED <<variant, server, warmer, now, ticks>>

RequestOp(reqs) == RequestUpTo(reqs, MaxPending)

Request == RequestOp(Requests)

\* the handler of a waiting request calls res.json(data) with status code
\* status; when that stores the payload the clock may move on inside set
RespondOp(answers) ==
    /\ \E i \in 1..Len(pending), answer \in answers, t2 \in LaterReads :
          LET p == pending[i]
              status == answer[1]
              data == answer[2]
              r == IF ~p.intercepted
                   THEN [this |-> This, res |-> originalJson(status, data)]
                   ELSE IF variant = "tiered"
                   THEN json(This, p, status, data, now, t2)
                   ELSE simple_json(This, p, status, data, now, t2)
          IN  /\ (t2 # now) => (p.intercepted /\ status = 200)
              /\ Becomes(r.this)
              /\ now' = t2
              /\ ticks' = ticks + (t2 - now)
              /\ pending' = SubSeq(pending, 1, i - 1) \o SubSeq(pending, i + 1, Len(pending))
              /\ last' = [op |-> "respond", req |-> p.req, intercepted |-> p.intercepted,
                          answer |-> answer, res |-> r.res]
    /\ UNCHANGED <<variant, server, warmer, lookups>>

Respond == RespondOp(Answers)

\* the warming service stores a payload it built itself (cache.set with the
\* route's key and tier)
WarmSet ==
    SetOp({generateKey(GET(U_indices))}, {PObjA}, {Some(7 * 24 * 60 * 60 * Second)})


\* the cache used directly
NextCache == Tick \/ Get \/ Set \/ Clear
SpecCache == Init /\ [][NextCache]_vars

\* the cache behind the middleware, with the warming service's insertions
NextMw == Tick \/ Request \/ Respond \/ Clear \/ WarmSet
SpecMw == InitTiered /\ [][NextMw]_vars

\* Eviction order: a store one larger than MaxCapacity, four keys, one payload
EvictKeys == Keys \cup {generateKey(GET(U_geojson)), generateKey(GET(U_cache))}

InitEvict ==
    /\ variant \in {"tiered", "simple"}
    /\ InitWith([ttl |-> None, maxSize |-> Some(MaxCapacity + 1)])

SetEvict == SetOp(EvictKeys, {PObjA}, {Some(Hour)})

NextEvict == Tick \/ SetEvict
SpecEvict == InitEvict /\ [][NextEvict]_vars

\* The tiers: GETs without a validator for every URL of TierUrls
TierRequests == [ method : {"GET"}, originalUrl : TierUrls, ifNoneMatch : {undefined} ]

InitTTL ==
    /\ variant \in {"tiered", "simple"}
    /\ InitWith([ttl |-> None, maxSize |-> Some(1)])

RequestTier == RequestOp(TierRequests)

NextTTL == Tick \/ RequestTier \/ Respond
SpecTTL == InitTTL /\ [][NextTTL]_vars

\* a call of cache.getStats()
GetStats ==
    /\ last' = [op |-> "getStats", ret |-> getStats(This)]
    /\ UNCHANGED <<variant, server, warmer, maxSize, ttl, cache, hits, misses, now, ticks,
                   lookups, pending>>

\* The statistics: one key, stored and looked up often enough for 3 hits and
\* a miss
StatsKeys == {generateKey(GET(U_indices))}

SetStats == SetOp(StatsKeys, {PObjA}, {Some(Hour + 1)})
GetCounted == GetUpTo(StatsKeys, MaxLookups + 2)

NextStats == SetStats \/ GetCounted \/ Clear \/ GetStats
SpecStats == Init /\ [][NextStats]_vars

\* warmCache(cache) is called: the counters are reset and warmMetadata sends
\* its first query
WarmCache ==
    /\ warmer.pc = "idle"
    /\ warmer' = [CacheWarmingService EXCEPT !.pc = "metadata",
                                              !.inflight = <<"climate_indices">>]
    /\ last' = [op |-> "warmCache"]
    /\ UNCHANGED <<variant, server, maxSize, ttl, cache, hits, misses, now, ticks, lookups, pending>>

\* a query of warmMetadata answers; the phase ends with the second answer or
\* with an error
MetadataDone ==
    /\ warmer.pc = "metadata"
    /\ \E result \in QueryResults :
          LET q == warmer.inflight[1]
              r == warmMetadata(This, warmer, q, result, now)
              over == r.w.inflight = <<>>
          IN  /\ Becomes(r.this)
              /\ warmer' = [r.w EXCEPT
                    !.pc = IF over THEN "tier1" ELSE "metadata",
                    !.metaResults = Append(@, result),
                    !.bad = IF result = "rows" THEN @ ELSE @ \cup {q},
                    !.afterMeta = IF over THEN r.w.warmedCount + r.w.failedCount ELSE @]
              /\ last' = [op |-> "metadata", query |-> q, result |-> result]
    /\ UNCHANGED <<variant, server, now, ticks, lookups, pending>>

\* the next batch of warmTier1 starts: every warmEntry of the batch sends its
\* query; the answers come first to last or last to first
StartBatch ==
    /\ warmer.pc = "tier1"
    /\ warmer.inflight = <<>>
    /\ warmer.batch < Len(tier1Batches)
    /\ \E order \in {"first", "last"} :
          warmer' = [warmer EXCEPT
                !.batch = @ + 1,
                !.order = order,
                !.inflight = tier1Batches[warmer.batch + 1],
                !.started = @ \o tier1Batches[warmer.batch + 1]]
    /\ last' = [op |-> "startBatch"]
    /\ UNCHANGED <<variant, server, maxSize, ttl, cache, hits, misses, now, ticks, lookups, pending>>

\* the query of one warmEntry of the running batch answers
FetchDone ==
    /\ warmer.pc = "tier1"
    /\ warmer.inflight # <<>>
    /\ LET n == Len(warmer.inflight)
           i == IF warmer.order = "first" THEN 1 ELSE n
           index == warmer.inflight[i]
           rest == SubSeq(warmer.inflight, 1, i - 1) \o SubSeq(warmer.inflight, i + 1, n)
       IN  \E result \in GeoResults(index) :
              LET r == warmEntry(This, warmer, index, result, now)
              IN  /\ Becomes(r.this)
                  /\ warmer' = [r.w EXCEPT
                        !.inflight = rest,
                        !.bad = IF result = "rows" THEN @ ELSE @ \cup {index}]
                  /\ last' = [op |-> "fetch", index |-> index, result |-> result]
    /\ UNCHANGED <<variant, server, now, ticks, lookups, pending>>

\* the last batch is over and warmCache returns
WarmDone ==
    /\ warmer.pc = "tier1"
    /\ warmer.inflight = <<>>
    /\ warmer.batch = Len(tier1Batches)
    /\ warmer' = [warmer EXCEPT !.pc = "done"]
    /\ last' = [op |-> "warmDone"]
    /\ UNCHANGED <<variant, server, maxSize, ttl, cache, hits, misses, now, ticks, lookups, pending>>

\* Warming: an empty tiered cache of the singleton's capacity, or of just
\* the capacity the warm set needs
WarmCapacities == {Len(CLIMATE_INDICES) + 2, 400}

InitWarm ==
    /\ variant = "tiered"
    /\ \E n \in WarmCapacities : InitWith([ttl |-> None, maxSize |-> Some(n)])

NextWarm == WarmCache \/ MetadataDone \/ StartBatch \/ FetchDone \/ WarmDone
SpecWarm == InitWarm /\ [][NextWarm]_vars

\* Warming when every query the warmer has sent is answered at some time, and
\* the event loop resumes warmCache once what it awaits has settled
SpecWarmLive ==
    /\ InitWarm /\ [][NextWarm]_vars
    /\ WF_vars(MetadataDone) /\ WF_vars(FetchDone)
    /\ WF_vars(StartBatch) /\ WF_vars(WarmDone)

\* startServer awaits testConnection, which resolves or throws; on a throw
\* the process exits
TestConnection ==
    /\ server.pc = "starting"
    /\ \E ok \in BOOLEAN :
          /\ server' = [pc |-> IF ok THEN "connected" ELSE "exited"]
          /\ last' = [op |-> "testConnection", ok |-> ok]
    /\ UNCHANGED <<variant, warmer, maxSize, ttl, cache, hits, misses, now, ticks,
                   lookups, pending>>

\* app.listen: the next statement of startServer after testConnection
Listen ==
    /\ server.pc = "connected"
    /\ server' = [pc |-> "listening"]
    /\ last' = [op |-> "listen"]
    /\ UNCHANGED <<variant, warmer, maxSize, ttl, cache, hits, misses, now, ticks,
                   lookups, pending>>

\* the requests the listening server receives
InboundRequests ==
    [ method : {"GET", "POST"},
      originalUrl : {U_indices, U_municipalities, U_geojson, U_healthcheck},
      ifNoneMatch : {undefined} ]

\* a request reaches the app: helmet, cors, morgan and the body parsers pass
\* it to its route; no cache middleware is mounted, so res.json stays Express's
Inbound ==
    /\ server.pc = "listening"
    /\ lookups < MaxLookups
    /\ Len(pending) < MaxPending
    /\ lookups' = lookups + 1
    /\ \E req \in InboundRequests :
          /\ pending' = Append(pending, [req |-> req, key |-> generateKey(req),
                                          intercepted |-> FALSE, ttl |-> None])
          /\ last' = [op |-> "inbound", req |-> req, viaCache |-> FALSE]
    /\ UNCHANGED <<variant, warmer, server, maxSize, ttl, cache, hits, misses, now,
                   ticks>>

\* The main server from process start: the tiered singleton exists, nothing
\* calls the warmer
NextServer == TestConnection \/ Listen \/ Inbound \/ Respond \/ Tick
SpecServer == InitTiered /\ [][NextServer]_vars

\* Request flows and the warmer on one small cache: GETs of a route the
\* warmer also stores, answered with status 200
SharedRequests == [ method : {"GET"}, originalUrl : {U_indices}, ifNoneMatch : {undefined} ]

RequestShared == RequestOp(SharedRequests)
RespondShared == RespondOp({<<200, PObjA>>})

NextShared ==
    \/ RequestShared \/ RespondShared
    \/ WarmCache \/ MetadataDone \/ StartBatch \/ FetchDone \/ WarmDone
    \/ Clear
SpecShared == InitTiered /\ [][NextShared]_vars

\* The simple variant behind its middleware: handlers that answer 200 with an
\* object, with null or with 0
InitSimple ==
    /\ variant = "simple"
    /\ \E options \in OptionsSet : InitWith(options)

SimpleRequests == [ method : {"GET"}, originalUrl : {U_indices, U_other},
                    ifNoneMatch : {undefined} ]
SimpleAnswers == {<<200, PObjA>>, <<200, null>>, <<200, PZero>>}

RequestSimple == RequestOp(SimpleRequests)
RespondSimple == RespondOp(SimpleAnswers)

NextSimple == Tick \/ RequestSimple \/ RespondSimple
SpecSimple == InitSimple /\ [][NextSimple]_vars

\* Two requests in flight at once: GETs of two routes, up to MaxPending + 1
\* handlers waiting, answered with status 200 and one of two payloads
TwinRequests == [ method : {"GET"}, originalUrl : {U_indices, U_other},
                  ifNoneMatch : {undefined} ]

RequestTwin == RequestUpTo(TwinRequests, MaxPending + 1)
RespondTwin == RespondOp({<<200, PObjA>>, <<200, null>>})

NextTwin == RequestTwin \/ RespondTwin
SpecTwin == InitTiered /\ [][NextTwin]_vars

\* everything that can happen to the cache of one process
Next ==
    \/ Tick \/ Get \/ Set \/ Clear \/ GetStats
    \/ Request \/ Respond \/ WarmSet
    \/ WarmCache \/ MetadataDone \/ StartBatch \/ FetchDone \/ WarmDone
    \/ TestConnection \/ Listen \/ Inbound

Spec == Init /\ [][Next]_vars

\* Requests the middleware lets through, and handlers that fail: the error
\* handler of the server answers a failed handler through the same res.json
PassRequests ==
    [ method : {"GET", "POST"}, originalUrl : {U_indices, U_other, U_cache},
      ifNoneMatch : {undefined} ]

FailAnswers == {<<200, PObjA>>, <<404, PError>>, <<500, PError>>}

RequestPass == RequestOp(PassRequests)
RespondFail == RespondOp(FailAnswers)

NextPass == Tick \/ RequestPass \/ RespondFail
SpecPass == Init /\ [][NextPass]_vars

----------------------------------------------------------------------------
(* Properties *)

Entry(c, k) == MapGet(c, k)

\* C1: in the tiered cache, set(k, p, ttl) with ttl > 0 installs p under k with
\* etag generateETag(p) and expiresAt = now + ttl; the entry of a key stays
\* what set made it for as long as the key is in the store and is not set
\* again; and get(k) at any time now <= expiresAt returns that entry, adds 1
\* to hits and leaves misses alone.
C1_Step ==
    variant = "tiered" =>
      /\ (last'.op = "set" /\ last'.customTtl # None /\ last'.customTtl[1] > 0) =>
            /\ MapHas(cache', last'.key)
            /\ Entry(cache', last'.key).data = last'.data
            /\ Entry(cache', last'.key).etag = generateETag(last'.data)
            /\ Entry(cache', last'.key).expiresAt = now + last'.customTtl[1]
      /\ \A k \in MapKeys(cache) \cap MapKeys(cache') :
            \/ last'.op = "set" /\ last'.key = k
            \/ Entry(cache', k) = Entry(cache, k)
      /\ (last'.op = "get" /\ MapHas(cache, last'.key)
            /\ now <= Entry(cache, last'.key).expiresAt) =>
            /\ last'.ret = Entry(cache, last'.key)
            /\ last'.ret.etag = generateETag(last'.ret.data)
            /\ hits' = hits + 1
            /\ misses' = misses

C1_StoreThenLookup == [][C1_Step]_vars

\* a get at the very instant of expiry that returned the payload stored
\* with the caller's positive ttl
C1_Witness ==
    /\ variant = "tiered"
    /\ last.op = "get"
    /\ last.ret # null
    /\ last.ret.data = PObjA
    /\ last.ret.etag = generateETag(PObjA)
    /\ last.ret.expiresAt = last.ret.createdAt + Hour + 1
    /\ now = last.ret.expiresAt
    /\ now > 0
    /\ hits = 1 /\ misses = 0

\* C2: get(k) of a key whose entry has expiresAt < now returns null, removes
\* the entry, adds 1 to misses and leaves hits alone; and get never counts a
\* hit on, or returns, an entry whose expiresAt is earlier than the call.
C2_Step ==
    last'.op = "get" =>
      LET k == last'.key
      IN  /\ (MapHas(cache, k) /\ Entry(cache, k).expiresAt < now) =>
                /\ last'.ret = null
                /\ ~MapHas(cache', k)
                /\ misses' = misses + 1
                /\ hits' = hits
          /\ (hits' # hits) =>
                MapHas(cache, k) /\ Entry(cache, k).expiresAt >= now
          /\ (variant = "tiered" /\ last'.ret # null) =>
                last'.ret.expiresAt >= now

C2_ExpiredIsAbsent == [][C2_Step]_vars

\* one hit and then one miss with nothing cleared, and the store is empty:
\* the entry that was hit has since been removed by the get that missed
C2_Witness ==
    /\ last.op = "get"
    /\ last.ret = null
    /\ hits = 1 /\ misses = 1
    /\ cache = <<>>

\* C3: the store never holds more than maxSize entries.
C3_SizeBound == Len(cache) <= maxSize

\* a store of capacity 1 that served a hit on one key and now holds only the
\* key whose miss was just answered: the insertion evicted the other key
C3_Witness ==
    /\ variant = "tiered"
    /\ maxSize = 1
    /\ hits = 1 /\ misses = 1
    /\ last.op = "respond"
    /\ last.intercepted
    /\ last.res.status = 200
    /\ MapKeys(cache) = {generateKey(last.req)}

\* C5: set on a key that is already present keeps every other key and the size.
C5_Step ==
    (last'.op = "set" /\ MapHas(cache, last'.key)) =>
        /\ MapKeys(cache') = MapKeys(cache)
        /\ Len(cache') = Len(cache)

C5_ExistingKeyNeverEvicts == [][C5_Step]_vars

\* C6: set(k, p2, ttl2) at time t on a store holding k leaves exactly one entry
\* for k, with data p2, etag generateETag(p2), createdAt t and expiresAt t + ttl2.
C6_Step ==
    (last'.op = "set" /\ MapHas(cache, last'.key) /\ last'.customTtl # None) =>
        LET k == last'.key
            e == Entry(cache', k)
        IN  /\ Cardinality({i \in 1..Len(cache') : cache'[i][1] = k}) = 1
            /\ e.data = last'.data
            /\ (variant = "tiered") => (e.etag = generateETag(last'.data))
            /\ e.createdAt = now
            /\ e.expiresAt = now + last'.customTtl[1]

C6_SetReplaces == [][C6_Step]_vars

\* C4: set of a key that is not present, on a store holding exactly maxSize
\* entries, removes exactly one entry, the one with the earliest createdAt,
\* keeps every other entry and leaves the store at maxSize entries.
C4_Step ==
    (last'.op = "set" /\ ~MapHas(cache, last'.key) /\ Len(cache) = maxSize) =>
        /\ Len(cache') = maxSize
        /\ \E victim \in MapKeys(cache) :
              /\ \A k \in MapKeys(cache) :
                    Entry(cache, victim).createdAt <= Entry(cache, k).createdAt
              /\ MapKeys(cache') = (MapKeys(cache) \ {victim}) \cup {last'.key}
              /\ \A k \in MapKeys(cache) \ {victim} : Entry(cache', k) = Entry(cache, k)

C4_EvictsOldestCreated == [][C4_Step]_vars

\* C7: determineTTL(url) is the TTL of the first of the markers '/indices'
\* (7 days), '/climate-data/geojson/' (30 days), '/municipalities' (7 days),
\* '/health' (1 hour) that occurs in url, and 1 hour when none occurs; it is a
\* function of url alone, and a url with the GeoJSON and the municipalities
\* marker gets 30 days.
TierOrder ==
    << <<M_indices, 7 * 24 * Hour>>, <<M_geojson, 30 * 24 * Hour>>,
       <<M_municipalities, 7 * 24 * Hour>>, <<M_health, Hour>> >>

FirstMarkerTtl(url) ==
    LET found == {i \in 1..Len(TierOrder) : includes(url, TierOrder[i][1])}
    IN  IF found = {} THEN Hour
        ELSE TierOrder[CHOOSE i \in found : \A j \in found : i <= j][2]

C7_FirstMarkerWins ==
    variant = "tiered" =>
      /\ (last.op = "request" /\ last.next) =>
            /\ last.ttl = Some(FirstMarkerTtl(last.req.originalUrl))
            /\ (last.req.originalUrl = U_geo_munic) => (last.ttl = Some(30 * 24 * Hour))
      /\ \A i \in 1..Len(pending) :
            pending[i].ttl = Some(FirstMarkerTtl(pending[i].req.originalUrl))

\* a miss on the URL that carries both markers was given the 30-day tier
C7_Witness ==
    /\ variant = "tiered"
    /\ last.op = "request"
    /\ last.next
    /\ last.req.originalUrl = U_geo_munic
    /\ last.ttl = Some(30 * 24 * Hour)

\* the key of req has an entry that has not expired
Fresh(req) ==
    /\ MapHas(cache, generateKey(req))
    /\ now <= Entry(cache, generateKey(req)).expiresAt

\* req is a GET outside the cache-management paths
Cacheable(req) == req.method = "GET" /\ ~includes(req.originalUrl, M_cache)

\* C8: in the tiered middleware a cacheable GET whose key has an unexpired
\* entry is answered from the cache without the handler being invoked, and the
\* handler is invoked only when the lookup misses.
C8_Step ==
    (variant = "tiered" /\ last'.op = "request" /\ Cacheable(last'.req)) =>
        /\ Fresh(last'.req) =>
              /\ ~last'.next
              /\ pending' = pending
              /\ last'.res.status \in {200, 304}
              /\ hits' = hits + 1
        /\ last'.next =>
              /\ ~Fresh(last'.req)
              /\ misses' = misses + 1
              /\ Len(pending') = Len(pending) + 1

C8_HitSkipsHandler == [][C8_Step]_vars

\* a cached JSON null was served from the cache and no handler is waiting
C8_Witness ==
    /\ variant = "tiered"
    /\ last.op = "request"
    /\ ~last.next
    /\ last.res.headers.xCache = "HIT"
    /\ last.res.body = null
    /\ pending = <<>>
    /\ hits = 1

\* the step repeats, right after its 200 response, a GET that missed
RepeatAfterMiss ==
    /\ variant = "tiered"
    /\ last.op = "respond"
    /\ last.intercepted
    /\ last.res.status = 200
    /\ last'.op = "request"
    /\ last'.req = last.req

\* C9 as claimed: the first response carries X-Cache MISS and the ETag of p,
\* and the immediate repeat carries X-Cache HIT, the same ETag and p.
C9_Original_Step ==
    RepeatAfterMiss =>
        /\ last.res.headers.xCache = "MISS"
        /\ last.res.headers.etag = generateETag(last.res.body)
        /\ last'.res.headers.xCache = "HIT"
        /\ last'.res.headers.etag = last.res.headers.etag
        /\ last'.res.body = last.res.body

C9_Original == [][C9_Original_Step]_vars

\* C9 amended: the first response carries X-Cache MISS and the ETag of p; the
\* immediate repeat carries the same ETag, and X-Cache HIT with p unless the
\* request's If-None-Match equals that ETag, in which case it is a 304 with
\* X-Cache HIT-304 and no body.
C9_Step ==
    RepeatAfterMiss =>
        /\ last.res.headers.xCache = "MISS"
        /\ last.res.headers.etag = generateETag(last.res.body)
        /\ ~last'.next
        /\ last'.res.headers.etag = last.res.headers.etag
        /\ IF last.req.ifNoneMatch = last.res.headers.etag
           THEN /\ last'.res.status = 304
                /\ last'.res.headers.xCache = "HIT-304"
                /\ last'.res.body = NoBody
           ELSE /\ last'.res.status = 200
                /\ last'.res.headers.xCache = "HIT"
                /\ last'.res.body = last.res.body

C9_MissThenHit == [][C9_Step]_vars

\* a route only the middleware stores was missed once and then hit, by a
\* request whose validator is not the ETag of the cached payload
C9_Witness ==
    /\ variant = "tiered"
    /\ last.op = "request"
    /\ last.req.originalUrl = U_other
    /\ last.req.ifNoneMatch = generateETag(PObjA)
    /\ last.res.headers.xCache = "HIT"
    /\ last.res.headers.etag = generateETag(null)
    /\ last.res.body = null
    /\ hits = 1 /\ misses = 1

\* the max-age, in seconds, of the tier of url
TierSeconds ==
    << <<M_indices, 604800>>, <<M_geojson, 2592000>>,
       <<M_municipalities, 604800>>, <<M_health, 3600>> >>

MaxAgeOf(url) ==
    LET found == {i \in 1..Len(TierSeconds) : includes(url, TierSeconds[i][1])}
    IN  IF found = {} THEN 3600
        ELSE TierSeconds[CHOOSE i \in found : \A j \in found : i <= j][2]

\* C10: on a hit, an If-None-Match equal to the stored etag gives status 304
\* with no body and Cache-Control public, max-age=floor(ttl/1000) of the
\* path's tier; any other or no If-None-Match gives the stored payload with
\* X-Cache HIT, the stored etag as ETag and the same Cache-Control.
C10_Step ==
    (variant = "tiered" /\ last'.op = "request" /\ Cacheable(last'.req)
       /\ Fresh(last'.req)) =>
        LET e  == Entry(cache, generateKey(last'.req))
            cc == "public, max-age=" \o ToString(MaxAgeOf(last'.req.originalUrl))
        IN  IF last'.req.ifNoneMatch = e.etag
            THEN /\ last'.res.status = 304
                 /\ last'.res.body = NoBody
                 /\ last'.res.headers.cacheControl = cc
            ELSE /\ last'.res.body = e.data
                 /\ last'.res.headers.xCache = "HIT"
                 /\ last'.res.headers.etag = e.etag
                 /\ last'.res.headers.cacheControl = cc

C10_ConditionalHit == [][C10_Step]_vars

\* a matching validator on the 7-day route was answered 304 without a body
C10_Witness ==
    /\ variant = "tiered"
    /\ last.op = "request"
    /\ last.req.originalUrl = U_indices
    /\ last.req.ifNoneMatch = generateETag(PObjA)
    /\ last.res.status = 304
    /\ last.res.body = NoBody
    /\ last.res.headers.cacheControl = "public, max-age=604800"

\* C11 as stated: when the handler of a miss answers with a status other
\* than 200, the store after the response is what it was before the request.
C11_Original_Step ==
    (last'.op = "respond" /\ last'.intercepted /\ last'.res.status # 200
        /\ last.op = "request" /\ last.next /\ last.req = last'.req) =>
        /\ cache' = cache
        /\ last.removed = {}

C11_Original == [][C11_Original_Step]_vars

\* C11: the lookup of a miss removes nothing but an expired entry of the
\* request's own key; a response of the handler with a status other than 200
\* leaves the store and the counters as they are and reaches the caller with
\* the handler's status and body; the override changes the store only for
\* status 200, and then by storing the body under the request's key.
C11_Step ==
    /\ (last'.op = "request" /\ last'.next) =>
          /\ last'.removed \subseteq {generateKey(last'.req)}
          /\ \A k \in last'.removed : Entry(cache, k).expiresAt < now
          /\ cache' = MapDelete(cache, generateKey(last'.req)) \/ cache' = cache
    /\ (last'.op = "respond" /\ last'.intercepted) =>
          /\ last'.res.status = last'.answer[1]
          /\ last'.res.body = last'.answer[2]
          /\ (last'.res.status # 200) =>
                cache' = cache /\ hits' = hits /\ misses' = misses
          /\ (cache' # cache) =>
                /\ last'.res.status = 200
                /\ MapHas(cache', generateKey(last'.req))
                /\ Entry(cache', generateKey(last'.req)).data = last'.answer[2]

C11_FailureNotCached == [][C11_Step]_vars

\* the handler of a miss has just failed with 500 in front of a tiered store
\* that holds another route's entry, and the caller got the error body
C11_Witness ==
    /\ variant = "tiered"
    /\ last.op = "respond"
    /\ last.intercepted
    /\ last.res.status = 500
    /\ last.res.body = PError
    /\ last.req.originalUrl = U_other
    /\ MapKeys(cache) = {generateKey(GET(U_indices))}

\* C12: a request whose method is not GET passes through: the handler is
\* invoked, the store, hits and misses are unchanged, res.json is not
\* intercepted, and the handler's response leaves the store alone and carries
\* no cache header.
C12_Step ==
    /\ (last'.op = "request" /\ last'.req.method # "GET") =>
          /\ last'.next
          /\ cache' = cache /\ hits' = hits /\ misses' = misses
          /\ Len(pending') = Len(pending) + 1
          /\ ~pending'[Len(pending')].intercepted
          /\ pending'[Len(pending')].req = last'.req
    /\ (last'.op = "respond" /\ last'.req.method # "GET") =>
          /\ ~last'.intercepted
          /\ cache' = cache /\ hits' = hits /\ misses' = misses
          /\ last'.res = originalJson(last'.answer[1], last'.answer[2])

C12_NonGetPassesThrough == [][C12_Step]_vars

\* a POST was answered with status 200 and a payload, and the store is still
\* empty with no lookup counted
C12_Witness ==
    /\ last.op = "respond"
    /\ last.req.method = "POST"
    /\ last.res.status = 200
    /\ last.res.body = PObjA
    /\ last.res.headers = NoHeaders
    /\ cache = <<>>
    /\ hits = 0 /\ misses = 0
    /\ lookups = 1

\* C13: a request on a path containing '/cache/' leaves the store, hits and
\* misses as they are, whatever its method, and so does the response of its
\* handler; no key containing '/cache/' is ever in the store.
C13_Step ==
    /\ (last'.op \in {"request", "respond"} /\ includes(last'.req.originalUrl, M_cache)) =>
          cache' = cache /\ hits' = hits /\ misses' = misses
    /\ \A k \in MapKeys(cache') : ~includes(k, M_cache)

C13_ManagementNeverCached == [][C13_Step]_vars

\* the two decimals of n hundredths
TwoDecimals(n) ==
    ToString(n \div 100) \o "." \o ToString((n % 100) \div 10) \o ToString(n % 10)

\* C14: getStats reports hitRate as 100 * hits / (hits + misses) with two
\* decimal places and '%' when hits + misses > 0 ("75.00%" for 3 hits and 1
\* miss), "0%" when hits + misses = 0, and size and maxSize as the entry count
\* and the configured maximum.
C14_HitRate ==
    last.op = "getStats" =>
      LET r == last.ret
          total == hits + misses
      IN  /\ r.size = Len(cache)
          /\ r.maxSize = maxSize
          /\ r.hits = hits /\ r.misses = misses
          /\ (total = 0) => r.hitRate = "0%"
          /\ (total > 0) =>
                \E n \in 0..10000 :
                    /\ 2 * n * total >= 2 * 10000 * hits - total
                    /\ 2 * n * total <= 2 * 10000 * hits + total
                    /\ r.hitRate = TwoDecimals(n) \o "%"
          /\ (hits = 3 /\ misses = 1) => r.hitRate = "75.00%"
          /\ (hits = 1 /\ misses = 2) => r.hitRate = "33.33%"
          /\ (hits = 2 /\ misses = 1) => r.hitRate = "66.67%"

\* the snapshot after 3 hits and 1 miss on a store holding one entry
C14_Witness ==
    /\ last.op = "getStats"
    /\ hits = 3 /\ misses = 1
    /\ last.ret.hitRate = "75.00%"
    /\ last.ret.size = 1

\* C15: clear() leaves the store empty and hits = misses = 0 and keeps
\* maxSize and the default TTL; a get right after clear returns null and is
\* counted as the first miss.
C15_Step ==
    /\ (last'.op = "clear") =>
          /\ cache' = <<>>
          /\ hits' = 0 /\ misses' = 0
          /\ maxSize' = maxSize /\ ttl' = ttl
    /\ (last.op = "clear" /\ last'.op = "get") =>
          /\ last'.ret = null
          /\ hits' = 0 /\ misses' = 1

C15_ClearResets == [][C15_Step]_vars

\* a second get that is counted as the first miss on an empty store: the
\* counter of the first get was reset by a clear
C15_Witness ==
    /\ last.op = "get"
    /\ last.ret = null
    /\ lookups = 2
    /\ hits = 0 /\ misses = 1
    /\ cache = <<>>
    /\ ticks = 0

\* the keys a complete warm run leaves: the two metadata routes and the
\* GeoJSON route of ssp245 / near-term_2021-2040 for each of the 27 indices
WarmKeys ==
    { <<"GET", ":", "/", "api", "/", "indices">>,
      <<"GET", ":", "/", "api", "/", "municipalities">> }
    \cup { <<"GET", ":", "/", "api", "/", "climate-data", "/", "geojson", "/",
             "ssp245/near-term_2021-2040/" \o CLIMATE_INDICES[i]>> :
           i \in 1..Len(CLIMATE_INDICES) }

\* how many fetches were started for index
TimesStarted(index) ==
    Cardinality({j \in 1..Len(warmer.started) : warmer.started[j] = index})

\* C16: a warmCache run on an empty cache with maxSize >= 29 in which every
\* query returned rows ends with exactly the 29 warm keys in the cache, every
\* index fetched exactly once, warmedCount = 29 and failedCount = 0.
C16_WarmsAll ==
    (warmer.pc = "done" /\ warmer.bad = {} /\ maxSize >= 29) =>
        /\ Len(cache) = 29
        /\ MapKeys(cache) = WarmKeys
        /\ Cardinality(WarmKeys) = 29
        /\ \A i \in 1..Len(CLIMATE_INDICES) : TimesStarted(CLIMATE_INDICES[i]) = 1
        /\ Len(warmer.started) = 27
        /\ warmer.warmedCount = 29
        /\ warmer.failedCount = 0

\* a finished run without a failed query on a cache of capacity 29
C16_Witness ==
    /\ warmer.pc = "done"
    /\ warmer.bad = {}
    /\ maxSize = 29
    /\ Len(cache) = 29
    /\ warmer.warmedCount = 29

\* the names in a sequence
Range(list) == {list[i] : i \in 1..Len(list)}

\* the fetches that have started and not completed
InFlight == Range(warmer.inflight)

\* the GeoJSON fetches that have completed
Completed == Range(warmer.started) \ InFlight

\* C17: no GeoJSON fetch starts before the metadata phase has finished, and
\* no fetch for an index outside the priority subset starts before every
\* fetch for a priority index has completed.
C17_Step ==
    (warmer'.started # warmer.started) =>
        /\ warmer.pc = "tier1"
        /\ Len(warmer.metaResults) >= 1
        /\ InFlight = {}
        /\ \A j \in (Len(warmer.started) + 1)..Len(warmer'.started) :
              ~Includes(PRIORITY_INDICES, warmer'.started[j]) =>
                  Range(PRIORITY_INDICES) \subseteq Completed

C17_PhasesOrdered == [][C17_Step]_vars

\* the first batch outside the priority subset is in flight, after a
\* metadata phase of two answered queries and all eight priority fetches
C17_Witness ==
    /\ warmer.pc = "tier1"
    /\ "cwd" \in InFlight
    /\ Len(warmer.metaResults) = 2
    /\ Range(PRIORITY_INDICES) \subseteq Completed
    /\ Cardinality(Completed) = 8

\* C18: a batch's fetches start only when no fetch of an earlier batch is in
\* flight, and at no moment are more than 5 queries of the warmer in flight.
C18_Step ==
    /\ Len(warmer'.inflight) <= 5
    /\ (warmer'.started # warmer.started) =>
          /\ warmer.inflight = <<>>
          /\ warmer'.started = warmer.started \o warmer'.inflight

C18_BatchesSequential == [][C18_Step]_vars

\* the third batch has just started with five fetches in flight, the eight
\* fetches of the two batches before it having completed
C18_Witness ==
    /\ last.op = "startBatch"
    /\ warmer.batch = 3
    /\ Len(warmer.inflight) = 5
    /\ Cardinality(Completed) = 8

\* C19: in the GeoJSON phase a fetch that returns no data or raises an error
\* adds exactly 1 to failedCount, stores nothing and does not stop the run:
\* the other fetches of the batch stay in flight, the later batches still
\* run, and at the end the phase has added exactly 27 to warmedCount +
\* failedCount.
C19_Step ==
    /\ (last'.op = "fetch" /\ last'.result # "rows") =>
          /\ warmer'.failedCount = warmer.failedCount + 1
          /\ warmer'.warmedCount = warmer.warmedCount
          /\ cache' = cache
          /\ ~MapHas(cache', geoKey(last'.index))
          /\ warmer'.pc = "tier1"
          /\ Range(warmer'.inflight) = Range(warmer.inflight) \ {last'.index}
    /\ (warmer'.pc = "done") =>
          /\ Range(warmer'.started) = Range(CLIMATE_INDICES)
          /\ warmer'.warmedCount + warmer'.failedCount = warmer'.afterMeta + 27

C19_FailuresCounted == [][C19_Step]_vars

\* a finished run in which the fetch of one index returned no data or failed
\* in the first batch and another in a later batch: 25 of the 27 indices are
\* stored beside the two metadata entries
C19_Witness ==
    /\ warmer.pc = "done"
    /\ warmer.bad = {"cdd", "sdii"}
    /\ warmer.failedCount = 2
    /\ warmer.warmedCount = 27
    /\ Len(cache) = 27

\* how many of the metadata queries answered with result
MetaCount(results, result) ==
    Cardinality({j \in 1..Len(results) : results[j] = result})

\* C20: when the metadata phase ends without an error, each query that
\* returned an empty result has added 1 to failedCount and nothing to
\* warmedCount, and each query that returned rows has added 1 to warmedCount;
\* warming continues with the GeoJSON phase.
C20_Step ==
    (warmer.pc = "metadata" /\ warmer'.pc # "metadata"
        /\ MetaCount(warmer'.metaResults, "error") = 0) =>
        /\ warmer'.failedCount = MetaCount(warmer'.metaResults, "empty")
        /\ warmer'.warmedCount = MetaCount(warmer'.metaResults, "rows")
        /\ warmer'.pc = "tier1"

C20_EmptyMetadataFails == [][C20_Step]_vars

\* C21: once a metadata query has raised an error, warmCache does not go on:
\* it never reaches the GeoJSON phase or its normal end, and no GeoJSON fetch
\* is started in that run.
C21_Step ==
    (MetaCount(warmer'.metaResults, "error") > 0) =>
        /\ warmer'.pc \notin {"tier1", "done"}
        /\ warmer'.started = <<>>

C21_MetadataErrorAborts == [][C21_Step]_vars

\* the entry of key in c is the one a live miss on url answered with body
\* would have installed
AsLiveMiss(c, key, url, body) ==
    /\ key = generateKey(GET(url))
    /\ MapHas(c, key)
    /\ Entry(c, key).data = body
    /\ Entry(c, key).etag = generateETag(body)
    /\ Entry(c, key).expiresAt - Entry(c, key).createdAt = determineTTL(url)

\* C22: every entry the warmer installs is the entry a live miss on the same
\* route would install: same key, the TTL of the route's tier, and the body
\* of the route's 200 response.
C22_Step ==
    /\ (last'.op = "fetch" /\ last'.result = "rows") =>
          AsLiveMiss(cache', geoKey(last'.index), geoUrl(last'.index),
                     geojsonRoute(last'.index, "rows").body)
    /\ (last'.op = "metadata" /\ last'.result # "error") =>
          IF last'.query = "climate_indices"
          THEN AsLiveMiss(cache', KeyIndices, U_indices, listRoute(last'.result).body)
          ELSE AsLiveMiss(cache', KeyMunicipalities, U_municipalities,
                          listRoute(last'.result).body)

C22_WarmEqualsLive == [][C22_Step]_vars

\* C23: the server listens only after warmCache has finished, and every GET
\* it handles afterwards passes through the cache middleware.
C23_Step ==
    /\ (server'.pc = "listening") => (warmer'.pc = "done")
    /\ (last'.op = "inbound" /\ last'.req.method = "GET") => last'.viaCache

C23_WarmBeforeListen == [][C23_Step]_vars

\* C24: the entry a set call with a ttl argument >= 0 creates has
\* expiresAt = createdAt + ttl.
C24_Step ==
    (last'.op = "set" /\ last'.customTtl # None /\ last'.customTtl[1] >= 0) =>
        /\ MapHas(cache', last'.key)
        /\ Entry(cache', last'.key).expiresAt
              = Entry(cache', last'.key).createdAt + last'.customTtl[1]

C24_ExpiryIsCreatedPlusTtl == [][C24_Step]_vars

\* C25: under every interleaving of the request flows and the warmer on the
\* shared cache each get and each set takes effect as a whole: the store never
\* holds more than maxSize entries, and hits + misses is the number of lookups
\* since construction or the last clear (every step adds one to the sum exactly
\* when it performs a lookup, clear makes it 0, nothing else changes it)
PerformsLookup(l) ==
    \/ l.op = "get"
    \/ l.op = "request" /\ l.req.method = "GET"
                        /\ (variant = "simple" \/ ~includes(l.req.originalUrl, M_cache))

C25_Step ==
    /\ Len(cache') <= maxSize'
    /\ hits' + misses' =
          IF last'.op = "clear" THEN 0
          ELSE hits + misses + (IF PerformsLookup(last') THEN 1 ELSE 0)

C25_Atomic == [][C25_Step]_vars

\* a handler and a batch of the warmer are in flight on a full store that has
\* answered lookups, and the step just taken stored a warmed entry
C25_Witness ==
    /\ last.op = "fetch" /\ MapHas(cache, geoKey(last.index))
    /\ Len(pending) > 0
    /\ warmer.inflight # <<>>
    /\ Len(cache) = maxSize
    /\ hits >= 1 /\ misses >= 1

\* the key the next capacity eviction removes: the first key of the Map
Victim(c) == IF c = <<>> THEN <<>> ELSE <<c[1][1]>>

\* C26 as stated: a get, whether hit or miss, never changes which entry the
\* next capacity eviction removes.
C26_Original_Step ==
    last'.op = "get" => Victim(cache') = Victim(cache)

C26_Original == [][C26_Original_Step]_vars

\* C26: eviction is by insertion order, not access order: a get that hits, and
\* a get of a key that is not stored, leave the Map and its order exactly as
\* they were, so the keys present after every later set are the same with and
\* without such gets; the only get that changes the Map is the miss of an
\* expired entry, which removes that entry and keeps the order of the others,
\* and it changes the next victim only when the expired entry was the oldest.
C26_Step ==
    last'.op = "get" =>
      LET k == last'.key
      IN  /\ (~MapHas(cache, k) \/ hits' # hits) => cache' = cache
          /\ (MapHas(cache, k) /\ hits' = hits) =>
                /\ now > Entry(cache, k).expiresAt
                /\ cache' = MapDelete(cache, k)
                /\ (Victim(cache') # Victim(cache) => Victim(cache) = <<k>>)

C26_InsertionOrder == [][C26_Step]_vars

\* a full store of two entries whose oldest entry has just been hit: it is
\* still the first key of the Map, the one the next eviction removes
C26_Witness ==
    /\ last.op = "get"
    /\ hits >= 1
    /\ Len(cache) = 2 /\ maxSize = 2
    /\ cache[1][1] = last.key

\* the entries one run of the warmer aims at: the two metadata listings and
\* one GeoJSON per index
WarmTargets == 2 + Len(CLIMATE_INDICES)

\* C27: when warmCache completes, warmedCount is the number of entries the
\* run inserted into the (initially empty, large enough) cache and failedCount
\* is the number of targets it did not insert, whatever the queries returned.
C27_CountsMatchStore ==
    (warmer.pc = "done") =>
        /\ warmer.warmedCount = Len(cache)
        /\ warmer.failedCount = WarmTargets - Len(cache)

\* C28: in the simple variant every lookup that get counts as a hit is
\* answered from the cache: the handler is not invoked and the response
\* carries X-Cache HIT with the stored payload, whatever the payload is.
C28_Step ==
    (variant = "simple" /\ last'.op = "request" /\ hits' = hits + 1) =>
        /\ ~last'.next
        /\ pending' = pending
        /\ last'.res.headers.xCache = "HIT"
        /\ last'.res.body = Entry(cache, generateKey(last'.req)).data

C28_HitsAreServed == [][C28_Step]_vars

\* a handler for the key is already waiting
Waiting(k) == \E i \in 1..Len(pending) : pending[i].key = k /\ pending[i].intercepted

\* C29: a GET that misses while a handler for the same key is still waiting
\* invokes its handler too and adds 1 to misses (2 for the two requests); each
\* 200 response then stores its own payload and etag under the key, so after
\* both have responded the store holds one entry for the key, that of the
\* response produced last, and never more than maxSize entries.
C29_Step ==
    /\ (last'.op = "request" /\ Waiting(generateKey(last'.req))
            /\ ~MapHas(cache, generateKey(last'.req))) =>
          /\ last'.next
          /\ Len(pending') = Len(pending) + 1
          /\ misses' = misses + 1
          /\ hits' = hits
    /\ (last'.op = "respond" /\ last'.intercepted /\ last'.res.status = 200) =>
          LET k == generateKey(last'.req)
          IN  /\ Cardinality({i \in 1..Len(cache') : cache'[i][1] = k}) = 1
              /\ Entry(cache', k).data = last'.answer[2]
              /\ Entry(cache', k).etag = generateETag(last'.answer[2])
              /\ Len(cache') <= maxSize

C29_LastResponseWins == [][C29_Step]_vars

\* two requests of one key both missed, both handlers have responded, the
\* second with JSON null, and the store of capacity 2 holds that one entry
C29_Witness ==
    /\ last.op = "respond"
    /\ pending = <<>>
    /\ misses = 2 /\ hits = 0
    /\ maxSize = 2
    /\ MapKeys(cache) = {generateKey(last.req)}
    /\ Entry(cache, generateKey(last.req)).data = null
    /\ Entry(cache, generateKey(last.req)).etag = generateETag(null)

C30_Completed ==
    /\ warmer.pc = "done"
    /\ Range(warmer.started) = Range(CLIMATE_INDICES)
    /\ warmer.inflight = <<>>
    /\ warmer.warmedCount + warmer.failedCount = WarmTargets
    /\ \/ Len(warmer.metaResults) = 2
       \/ warmer.metaResults = <<"error">>

\* while a query is in flight no batch starts and warmCache does not return,
\* and a query leaves the set in flight only by being answered
C30_StallStep ==
    /\ (warmer.inflight # <<>>) =>
          /\ warmer'.batch = warmer.batch
          /\ warmer'.started = warmer.started
          /\ warmer'.pc # "done"
    /\ \A q \in InFlight :
          (q \notin Range(warmer'.inflight)) =>
              \/ last'.op = "fetch" /\ last'.index = q
              \/ last'.op = "metadata" /\ last'.query = q

====
